---- MODULE Spec2Model ----
(***************************************************************************)
(* Upsell groups: the persistence-and-enrichment service of                *)
(* app/models/Upsell.server.ts, the form-level validation, and the public  *)
(* retrieval endpoint of app/routes/api/upsell.ts.                         *)
(*                                                                         *)
(* Values.  A JavaScript string that is inspected character by character   *)
(* (a product identifier, the stored productIds text) is a sequence of     *)
(* one-character strings.  An optional value (a possibly undefined         *)
(* argument, a possibly null result) is the empty sequence when absent and *)
(* the one-element sequence <<v>> when present.                            *)
(*                                                                         *)
(* The record store (Prisma over the UpsellGroup table) is modelled by the *)
(* documented meaning of the five calls the service makes on it; a store   *)
(* call of the service is taken to complete.  The store call of the public *)
(* endpoint, which the code guards with try/catch, may throw.              *)
(***************************************************************************)
EXTENDS Integers, Sequences, FiniteSets, TLC

VARIABLES
    store,      \* rows of table UpsellGroup
    nextId,     \* the autoincrement counter of UpsellGroup.id
    pre,        \* the rows as they were when the last call began
    call,       \* the last call: operation and arguments
    ret,        \* what the last call gave back to its caller
    ledger,     \* per id: what its creator and its last accepted writer submitted
    req,        \* the request in flight at the public endpoint
    fan         \* the listing in flight: one enrichment promise per row found

vars == <<store, nextId, pre, call, ret, ledger, req, fan>>

----------------------------------------------------------------------------
(* Bounds *)

MaxRows == 2        \* rows ever inserted in one behaviour
MaxIds == 2         \* product identifiers in one submitted sequence
MaxNodes == 2       \* nodes in one catalog answer of the enrichment check

----------------------------------------------------------------------------
(* Optional values *)

None == <<>>
Some(v) == <<v>>

----------------------------------------------------------------------------
(* JSON.stringify / JSON.parse on arrays of strings *)

DQ == "\""
BS == "\\"

RECURSIVE Escape(_)
Escape(s) ==
    IF s = <<>> THEN <<>>
    ELSE IF Head(s) \in {DQ, BS} THEN <<BS, Head(s)>> \o Escape(Tail(s))
    ELSE <<Head(s)>> \o Escape(Tail(s))

QuoteUnescaped(s) == <<DQ>> \o s \o <<DQ>>

Quote(s) == <<DQ>> \o Escape(s) \o <<DQ>>

RECURSIVE JoinQuoted(_)
JoinQuoted(arr) ==
    IF arr = <<>> THEN <<>>
    ELSE IF Len(arr) = 1 THEN Quote(arr[1])
    ELSE Quote(Head(arr)) \o <<",">> \o JoinQuoted(Tail(arr))

\* JSON.stringify(productIds) for an array of strings
JSONstringify(arr) == <<"[">> \o JoinQuoted(arr) \o <<"]">>

ParseFail == [ok |-> FALSE, val |-> <<>>, next |-> 0]

\* a string literal whose opening quote was consumed; i is the next position
RECURSIVE ReadString(_, _, _)
ReadString(t, i, acc) ==
    IF i > Len(t) THEN ParseFail
    ELSE IF t[i] = DQ THEN [ok |-> TRUE, val |-> acc, next |-> i + 1]
    ELSE IF t[i] = BS
         THEN IF i + 1 <= Len(t) /\ t[i + 1] \in {DQ, BS}
              THEN ReadString(t, i + 2, Append(acc, t[i + 1]))
              ELSE ParseFail
    ELSE ReadString(t, i + 1, Append(acc, t[i]))

\* the elements of an array, i being the position where an element must start
RECURSIVE ReadElements(_, _, _)
ReadElements(t, i, acc) ==
    IF i > Len(t) \/ t[i] # DQ THEN ParseFail
    ELSE LET s == ReadString(t, i + 1, <<>>) IN
         IF ~s.ok \/ s.next > Len(t) THEN ParseFail
         ELSE IF t[s.next] = "," THEN ReadElements(t, s.next + 1, Append(acc, s.val))
         ELSE IF t[s.next] = "]" /\ s.next = Len(t)
              THEN [ok |-> TRUE, val |-> Append(acc, s.val), next |-> s.next + 1]
         ELSE ParseFail

\* JSON.parse(text): ok = FALSE is the SyntaxError it throws.  Exact on texts
\* that are an array of strings or no JSON at all.
JSONparse(t) ==
    IF Len(t) < 2 \/ t[1] # "[" THEN ParseFail
    ELSE IF t = <<"[", "]">> THEN [ok |-> TRUE, val |-> <<>>, next |-> 3]
    ELSE ReadElements(t, 2, <<>>)

----------------------------------------------------------------------------
(* validateUpsellGroup *)

\* !x for a string or undefined
Falsy(opt) == opt = None \/ opt[1] = ""

NoProductsOnlyEmpty(optIds) == optIds # None /\ Len(optIds[1]) = 0

\* !data.productIds || data.productIds.length === 0
NoProducts(optIds) == optIds = None \/ Len(optIds[1]) = 0

NoErrors == [k \in {} |-> ""]

validateUpsellGroup(title, productIds) ==
    LET e1 == IF Falsy(title)
              THEN NoErrors @@ ("title" :> "Title is required")
              ELSE NoErrors
        e2 == IF NoProducts(productIds)
              THEN e1 @@ ("products" :> "At least one product is required")
              ELSE e1
    IN  IF DOMAIN e2 # {} THEN Some(e2) ELSE None

----------------------------------------------------------------------------
(* The record store: db.upsellGroup *)

Shops == {"s1", "s2"}

\* the instant the store's clock shows when a row is inserted
Times == {10}

Matching(rows, id, shop) == {r \in rows : r.id = id /\ r.shop = shop}

\* db.upsellGroup.findFirst({ where: { id, shop } })
findFirst(rows, id, shop) ==
    IF Matching(rows, id, shop) = {} THEN None
    ELSE Some(CHOOSE r \in Matching(rows, id, shop) : TRUE)

RECURSIVE OrderByIdDesc(_)
OrderByIdDesc(rows) ==
    IF rows = {} THEN <<>>
    ELSE LET top == CHOOSE r \in rows : \A q \in rows : q.id <= r.id
         IN  <<top>> \o OrderByIdDesc(rows \ {top})

findManyAllShops(rows, shop) == OrderByIdDesc(rows)

\* db.upsellGroup.findMany({ where: { shop }, orderBy: { id: "desc" } })
findMany(rows, shop) == OrderByIdDesc({r \in rows : r.shop = shop})

updateManyByIdOnly(rows, id, shop, title, text) ==
    {IF r.id = id THEN [r EXCEPT !.title = title, !.productIds = text] ELSE r : r \in rows}

updateManyTouchingCreatedAt(rows, id, shop, title, text) ==
    {IF r.id = id /\ r.shop = shop
     THEN [r EXCEPT !.title = title, !.productIds = text, !.createdAt = r.createdAt + 1]
     ELSE r : r \in rows}

\* db.upsellGroup.updateMany({ where: { id, shop }, data: { title, productIds } })
updateMany(rows, id, shop, title, text) ==
    {IF r.id = id /\ r.shop = shop
     THEN [r EXCEPT !.title = title, !.productIds = text]
     ELSE r : r \in rows}

deleteManyByIdOnly(rows, id, shop) == {r \in rows : r.id # id}

\* db.upsellGroup.deleteMany({ where: { id, shop } })
deleteMany(rows, id, shop) == rows \ Matching(rows, id, shop)

\* db.upsellGroup.create({ data }): id autoincrement, createdAt default now()
insertRow(id, shop, title, text, now) ==
    [id |-> id, shop |-> shop, title |-> title, productIds |-> text, createdAt |-> now]

----------------------------------------------------------------------------
(* The catalog: adminClient.graphql(nodes(ids: $ids)) and response.json() *)

NullNode ==
    [isNull |-> TRUE, id |-> None, title |-> None, handle |-> None, featuredImage |-> None]

\* a Product node; img is None (featuredImage: null) or Some([url |-> u])
ProductNode(pid, img) ==
    [isNull |-> FALSE, id |-> Some(pid), title |-> Some(<<"T">> \o pid),
     handle |-> Some(<<"h">> \o pid), featuredImage |-> img]

\* a node that is no Product: the fragment selects nothing, the node is {}
OtherNode ==
    [isNull |-> FALSE, id |-> None, title |-> None, handle |-> None, featuredImage |-> None]

Image(pid) == Some([url |-> <<"u">> \o pid])

\* what one catalog call does: "throws" (graphql rejects), "jsonThrows"
\* (response.json() rejects), "noData" (the body has no data member),
\* "noNodes" (data.nodes is null), "notArray" (data.nodes is an object that is
\* no array), "nodes" (data.nodes is the array nodes)
Answer(kind, nodes) == [kind |-> kind, nodes |-> nodes]

Raises(ans) == ans.kind \in {"throws", "jsonThrows", "noData", "notArray"}

----------------------------------------------------------------------------
(* supplementUpsellGroup *)

\* node.featuredImage?.url
imageUrl(node) ==
    IF node.featuredImage = None THEN None ELSE node.featuredImage[1].url

toProductData(node) ==
    [id |-> node.id, title |-> node.title, handle |-> node.handle,
     imageUrl |-> imageUrl(node)]

RECURSIVE MapProducts(_)
MapProducts(nodes) ==
    IF nodes = <<>> THEN <<>>
    ELSE <<toProductData(Head(nodes))>> \o MapProducts(Tail(nodes))

notNull(node) == ~node.isNull

formatProductsKeepingNull(nodes) == MapProducts(nodes)

\* productNodes.filter(node => node !== null).map(...)
formatProducts(nodes) == MapProducts(SelectSeq(nodes, notNull))

Enriched(group, products) ==
    [id |-> group.id, title |-> group.title, shop |-> group.shop,
     createdAt |-> group.createdAt, products |-> products]

tryEnrichPerIdentifier(group, ans) ==
    LET parsed == JSONparse(group.productIds) IN
    IF ~parsed.ok
    THEN [status |-> "threw", value |-> None, asked |-> <<>>]
    ELSE LET each == [k \in 1 .. Len(parsed.val) |-> <<parsed.val[k]>>] IN
         IF Raises(ans)
         THEN [status |-> "threw", value |-> None, asked |-> each]
         ELSE LET productNodes == IF ans.kind = "noNodes" THEN <<>> ELSE ans.nodes
              IN  [status |-> "returned",
                   value |-> Some(Enriched(group, formatProducts(productNodes))),
                   asked |-> each]

\* the try block: status "threw" when JSON.parse, graphql, response.json() or
\* the reading of responseJson.data.nodes raises; asked holds the identifier
\* array of each catalog call made
tryEnrich(group, ans) ==
    LET parsed == JSONparse(group.productIds) IN
    IF ~parsed.ok
    THEN [status |-> "threw", value |-> None, asked |-> <<>>]
    ELSE IF Raises(ans)
    THEN [status |-> "threw", value |-> None, asked |-> <<parsed.val>>]
    ELSE LET productNodes == IF ans.kind = "noNodes" THEN <<>> ELSE ans.nodes
         IN  [status |-> "returned",
              value |-> Some(Enriched(group, formatProducts(productNodes))),
              asked |-> <<parsed.val>>]

supplementWithoutCatch(group, ans) == tryEnrich(group, ans)

\* try { ... } catch (error) { return { ...group fields, products: [] } }
supplementUpsellGroup(group, ans) ==
    LET t == tryEnrich(group, ans) IN
    IF t.status = "threw"
    THEN [status |-> "returned", value |-> Some(Enriched(group, <<>>)), asked |-> t.asked]
    ELSE t

----------------------------------------------------------------------------
(* The service: create, getOne, getAll, update, delete *)

\* what a call gives its caller and leaves in the store: status "returned" or
\* "threw", the message thrown, the value returned, the rows and the id
\* counter afterwards, the number of store calls made and the identifier
\* arrays sent to the catalog
Outcome(status, msg, value, rows, next, dbCalls, asked) ==
    [status |-> status, msg |-> msg, value |-> value, rows |-> rows, next |-> next,
     dbCalls |-> dbCalls, asked |-> asked]

Threw(msg, rows, next) == Outcome("threw", msg, None, rows, next, 0, <<>>)

createAssertsAfterInsert(rows, next, shop, title, productIds, now) ==
    IF Falsy(title) THEN Threw("Title is required", rows, next)
    ELSE LET ids == IF productIds = None THEN <<>> ELSE productIds[1]
             newGroup == insertRow(next, shop, title[1], JSONstringify(ids), now)
         IN  IF NoProducts(productIds)
             THEN Outcome("threw", "Products are required", None, rows \cup {newGroup},
                          next + 1, 1, <<>>)
             ELSE Outcome("returned", "", Some(newGroup), rows \cup {newGroup}, next + 1,
                          1, <<>>)

createUpsellGroup(rows, next, shop, title, productIds, now) ==
    IF Falsy(title) THEN Threw("Title is required", rows, next)
    ELSE IF NoProducts(productIds) THEN Threw("Products are required", rows, next)
    ELSE LET newGroup ==
                 insertRow(next, shop, title[1], JSONstringify(productIds[1]), now)
         IN  Outcome("returned", "", Some(newGroup), rows \cup {newGroup}, next + 1,
                     1, <<>>)

getUpsellGroup(rows, next, id, shop, ans) ==
    LET group == findFirst(rows, id, shop) IN
    IF group = None THEN Outcome("returned", "", None, rows, next, 1, <<>>)
    ELSE LET e == supplementUpsellGroup(group[1], ans)
         IN  Outcome(e.status, "", e.value, rows, next, 1, e.asked)

RECURSIVE SupplementAll(_, _)
SupplementAll(groups, answers) ==
    IF groups = <<>> THEN <<>>
    ELSE <<supplementUpsellGroup(Head(groups), Head(answers))>>
             \o SupplementAll(Tail(groups), Tail(answers))

\* the values Promise.all resolves to, in the order of the promises
RECURSIVE Values(_)
Values(es) == IF es = <<>> THEN <<>> ELSE Head(es).value \o Values(Tail(es))

RECURSIVE Asked(_)
Asked(es) == IF es = <<>> THEN <<>> ELSE Head(es).asked \o Asked(Tail(es))

\* Promise.all rejects when one of its promises rejects
AllStatus(es) ==
    IF \E i \in 1 .. Len(es) : es[i].status = "threw" THEN "threw" ELSE "returned"

\* answers[i] is what the catalog does with the call made for groups[i]
getUpsellGroups(rows, next, shop, answers) ==
    LET groups == findMany(rows, shop) IN
    IF Len(groups) = 0 THEN Outcome("returned", "", <<>>, rows, next, 1, <<>>)
    ELSE LET es == SupplementAll(groups, answers)
         IN  Outcome(AllStatus(es), "", Values(es), rows, next, 1, Asked(es))

updateUpsellGroup(rows, next, id, shop, title, productIds) ==
    IF Falsy(title) THEN Threw("Title is required", rows, next)
    ELSE IF NoProducts(productIds) THEN Threw("Products are required", rows, next)
    ELSE LET after == updateMany(rows, id, shop, title[1], JSONstringify(productIds[1]))
             updatedGroup == findFirst(after, id, shop)
         IN  Outcome("returned", "", updatedGroup, after, next, 2, <<>>)

deleteUpsellGroup(rows, next, id, shop) ==
    Outcome("returned", "", Some([success |-> TRUE]), deleteMany(rows, id, shop), next,
            1, <<>>)

----------------------------------------------------------------------------
(* Inputs of the service *)

P1 == <<"a">>
P2 == <<DQ, ",", BS>>

\* title arguments: undefined, empty, and two titles
TitleArgs == {None, Some(""), Some("A"), Some("B")}

\* productIds arguments: undefined, the empty array, and two arrays
SubmittedSeqs == {<<P1>>, <<P2, P1>>}
IdsArgs == {None, Some(<<>>)} \cup {Some(q) : q \in SubmittedSeqs}

\* ids a caller may name: every id given out so far and one more
IdArgs == 1 .. MaxRows + 1

RECURSIVE NodeSeqs(_)
NodeSeqs(ids) ==
    IF ids = <<>> THEN {<<>>}
    ELSE {<<n>> \o rest : n \in {NullNode, ProductNode(Head(ids), Image(Head(ids)))},
                          rest \in NodeSeqs(Tail(ids))}

\* a catalog that throws, or answers one node per requested identifier
AnswersFor(text) ==
    {Answer("throws", <<>>)}
        \cup {Answer("nodes", ns) : ns \in NodeSeqs(JSONparse(text).val)}

RECURSIVE AnswerSeqs(_)
AnswerSeqs(groups) ==
    IF groups = <<>> THEN {<<>>}
    ELSE {<<a>> \o rest : a \in AnswersFor(Head(groups).productIds),
                          rest \in AnswerSeqs(Tail(groups))}


Call(op, id, shop, title, productIds, answers) ==
    [op |-> op, id |-> id, shop |-> shop, title |-> title, productIds |-> productIds,
     answers |-> answers]

Ret(o) ==
    [status |-> o.status, msg |-> o.msg, value |-> o.value, dbCalls |-> o.dbCalls,
     asked |-> o.asked]

Exception(what) == [kind |-> "exception", status |-> 0, body |-> what, cors |-> FALSE]

\* cors(data(body, { status }))
Wrapped(status, body) == [kind |-> "response", status |-> status, body |-> body, cors |-> TRUE]

NoResponse == [kind |-> "none", status |-> 0, body |-> "", cors |-> FALSE]

NoResult == [sessionToken |-> FALSE,
             session |-> [present |-> FALSE, isSession |-> FALSE, inner |-> None],
             cors |-> [present |-> FALSE, callable |-> FALSE, inner |-> FALSE]]

\* a request at the public endpoint: where the loader stands, what
\* authenticate.public.checkout resolved to, the locals session and cors,
\* the store queries made, what the query found, and the way the loader ended
Request(pc, result, session, cors, queries, found, resp) ==
    [pc |-> pc, result |-> result, session |-> session, cors |-> cors,
     queries |-> queries, found |-> found, resp |-> resp]

NoRequest == Request("idle", NoResult, None, FALSE, 0, None, NoResponse)

NoCall == Call("none", 0, "", None, None, <<>>)
NoRet == [status |-> "none", msg |-> "", value |-> None, dbCalls |-> 0, asked |-> <<>>]

NoLedger == [i \in IdArgs |-> None]

\* the ledger after call c with outcome o: a create that returned enters the
\* submission under the id it was given; an update or delete by the shop that
\* created the id replaces or strikes its entry
Record(c, o) ==
    IF c.op = "create" /\ o.status = "returned"
    THEN [ledger EXCEPT ![o.value[1].id] =
              Some([shop |-> c.shop, createdAt |-> o.value[1].createdAt,
                    title |-> c.title[1], ids |-> c.productIds[1]])]
    ELSE IF c.op = "update" /\ o.status = "returned"
            /\ ledger[c.id] # None /\ ledger[c.id][1].shop = c.shop
    THEN [ledger EXCEPT ![c.id] =
              Some([ledger[c.id][1] EXCEPT !.title = c.title[1], !.ids = c.productIds[1]])]
    ELSE IF c.op = "delete" /\ ledger[c.id] # None /\ ledger[c.id][1].shop = c.shop
    THEN [ledger EXCEPT ![c.id] = None]
    ELSE ledger

\* no catalog answer yet
NoAnswer == Answer("none", <<>>)

\* no listing in flight
NoFan ==
    [stage |-> "idle", shop |-> "", groups |-> <<>>, pc |-> <<>>, answers |-> <<>>,
     out |-> <<>>, order |-> <<>>]

\* one call c with outcome o, made when no call is outstanding: the store moves
\* to the outcome's rows; svc with outcome svcOut is the service call it made
ApplyAs(c, svc, svcOut, o) ==
    /\ call = NoCall
    /\ ledger' = Record(svc, svcOut)
    /\ pre' = store
    /\ store' = o.rows
    /\ nextId' = o.next
    /\ call' = c
    /\ ret' = Ret(o)
    /\ UNCHANGED <<req, fan>>

\* one call of the service
Apply(c, o) == ApplyAs(c, c, o, o)

Init ==
    /\ store = {}
    /\ nextId = 1
    /\ pre = {}
    /\ call = NoCall
    /\ ret = NoRet
    /\ ledger = NoLedger
    /\ req = NoRequest
    /\ fan = NoFan

Create ==
    \E shop \in Shops, title \in TitleArgs, ids \in IdsArgs, now \in Times :
        LET o == createUpsellGroup(store, nextId, shop, title, ids, now) IN
        /\ o.next # nextId => nextId <= MaxRows
        /\ Apply(Call("create", 0, shop, title, ids, <<>>), o)

GetOne ==
    \E id \in IdArgs, shop \in Shops :
        \E ans \in IF findFirst(store, id, shop) = None THEN {Answer("throws", <<>>)}
                   ELSE AnswersFor(findFirst(store, id, shop)[1].productIds) :
            Apply(Call("getOne", id, shop, None, None, <<ans>>),
                  getUpsellGroup(store, nextId, id, shop, ans))

GetAll ==
    \E shop \in Shops :
        \E answers \in AnswerSeqs(findMany(store, shop)) :
            Apply(Call("getAll", 0, shop, None, None, answers),
                  getUpsellGroups(store, nextId, shop, answers))

Update ==
    \E id \in IdArgs, shop \in Shops, title \in TitleArgs, ids \in IdsArgs :
        Apply(Call("update", id, shop, title, ids, <<>>),
              updateUpsellGroup(store, nextId, id, shop, title, ids))

Delete ==
    \E id \in IdArgs, shop \in Shops :
        Apply(Call("delete", id, shop, None, None, <<>>),
              deleteUpsellGroup(store, nextId, id, shop))

\* the promise of the call settles: its caller takes the outcome
Settle ==
    /\ call # NoCall
    /\ call' = NoCall
    /\ ret' = NoRet
    /\ pre' = store
    /\ UNCHANGED <<store, nextId, ledger, req, fan>>

Next == Create \/ GetOne \/ GetAll \/ Update \/ Delete \/ Settle

Spec == Init /\ [][Next]_vars

----------------------------------------------------------------------------
(* Claims about the service *)

EnrichedFields == {"id", "title", "shop", "createdAt", "products"}

NonNull(nodes) == {i \in 1 .. Len(nodes) : ~nodes[i].isNull}

\* C4: after any sequence of create, update and delete by any shops,
\* getUpsellGroups(shop) returns exactly the stored rows of that shop, never a
\* row of another shop, each in enriched form, in strictly descending id order.
C4_ListScoped ==
    call.op = "getAll" =>
        LET v == ret.value
            mine == {r \in store : r.shop = call.shop}
        IN  /\ ret.status = "returned"
            /\ store = pre
            /\ Len(v) = Cardinality(mine)
            /\ \A i \in 1 .. Len(v) :
                   /\ DOMAIN v[i] = EnrichedFields
                   /\ v[i].shop = call.shop
                   /\ \E r \in mine :
                          /\ v[i].id = r.id
                          /\ v[i].title = r.title
                          /\ v[i].createdAt = r.createdAt
                   /\ call.answers[i].kind = "throws" => v[i].products = <<>>
                   /\ call.answers[i].kind = "nodes" =>
                          Len(v[i].products) = Cardinality(NonNull(call.answers[i].nodes))
            /\ \A i, j \in 1 .. Len(v) : i < j => v[i].id > v[j].id

\* both rows belong to the shop asked: the newer one comes first
C4_Witness ==
    /\ call.op = "getAll"
    /\ Len(ret.value) = 2
    /\ ret.value[1].id = 2
    /\ ret.value[2].id = 1

\* C5: updateUpsellGroup(id, shop, data) with valid data changes no stored row
\* when no row has both that id and that shop; a row with that id owned by
\* another shop keeps its title and productIds.
C5_UpdateScoped ==
    (/\ call.op = "update"
     /\ call.title \notin {None, Some("")}
     /\ call.productIds \notin {None, Some(<<>>)}
     /\ ~\E r \in pre : r.id = call.id /\ r.shop = call.shop) =>
        /\ store = pre
        /\ ret.status = "returned"
        /\ ret.value = None

\* another shop's row is named by its id, with a new title, and stays as it was
C5_Witness ==
    /\ call.op = "update"
    /\ call.title = Some("B")
    /\ call.productIds = Some(<<P1>>)
    /\ \E r \in store : r.id = call.id /\ r.shop # call.shop /\ r.title = "A"
                        /\ r.productIds = JSONstringify(<<P2, P1>>)

\* C6: deleteUpsellGroup returns the success acknowledgement whether or not a
\* row matched, removes at most the row with that id and that shop, leaves every
\* other row unchanged, and a second call with the same (id, shop) leaves the
\* store as the first call left it.
C6_DeleteIdempotent ==
    call.op = "delete" =>
        LET again == deleteUpsellGroup(store, nextId, call.id, call.shop) IN
        /\ ret.status = "returned"
        /\ ret.value = Some([success |-> TRUE])
        /\ store = {r \in pre : ~(r.id = call.id /\ r.shop = call.shop)}
        /\ Cardinality(pre \ store) <= 1
        /\ again.rows = store
        /\ again.status = "returned"
        /\ again.value = Some([success |-> TRUE])

\* a row is named by its id by a shop that does not own it: it stays
C6_Witness ==
    /\ call.op = "delete"
    /\ ret.value = Some([success |-> TRUE])
    /\ \E r \in store : r.id = call.id /\ r.shop # call.shop
    /\ Cardinality(store) = 2

\* the entry of the ledger a getOne call by the creating shop reads
Owned == ledger[call.id] # None /\ ledger[call.id][1].shop = call.shop

ProductIds(products) == [k \in 1 .. Len(products) |-> products[k].id]

Submitted(ids) == [k \in 1 .. Len(ids) |-> Some(ids[k])]

\* C7 as stated: getOne after create returns a record that carries the
\* submitted title and the submitted identifier sequence.
C7_CarriesSubmittedIds ==
    (call.op = "getOne" /\ Owned) =>
        /\ ret.value # None
        /\ ret.value[1].title = ledger[call.id][1].title
        /\ ProductIds(ret.value[1].products) = Submitted(ledger[call.id][1].ids)

\* C7 amended: getOne after create returns the submitted title; the stored
\* productIds decode to the submitted identifier sequence, which is what the one
\* catalog query carries; the products returned are those the catalog resolved,
\* all of the submitted identifiers when the catalog resolves every one, none
\* when the catalog call throws.
C7_RoundTrip ==
    (call.op = "getOne" /\ Owned) =>
        /\ ret.status = "returned"
        /\ ret.value # None
        /\ ret.value[1].id = call.id
        /\ ret.value[1].title = ledger[call.id][1].title
        /\ ret.asked = <<ledger[call.id][1].ids>>
        /\ Len(ret.value[1].products) <= Len(ledger[call.id][1].ids)
        /\ call.answers[1].kind = "throws" => ret.value[1].products = <<>>
        /\ (/\ call.answers[1].kind = "nodes"
            /\ NonNull(call.answers[1].nodes) = 1 .. Len(call.answers[1].nodes)) =>
               ProductIds(ret.value[1].products) = Submitted(ledger[call.id][1].ids)

\* both submitted identifiers, one of them full of escapes, come back resolved
C7_Witness ==
    /\ call.op = "getOne"
    /\ Owned
    /\ ledger[call.id][1].ids = <<P2, P1>>
    /\ ProductIds(ret.value[1].products) = <<Some(P2), Some(P1)>>

C11_OneCallPerRow ==
    /\ call.op = "getAll" =>
           LET mine == {r \in store : r.shop = call.shop} IN
           /\ Len(ret.asked) = Cardinality(mine)
           /\ Len(ret.asked) = Len(ret.value)
           /\ \A i \in 1 .. Len(ret.asked) :
                  /\ ledger[ret.value[i].id] # None
                  /\ ret.asked[i] = ledger[ret.value[i].id][1].ids
           /\ mine = {} => (ret.value = <<>> /\ ret.asked = <<>>)
    /\ (call.op = "getOne" /\ ret.value # None) =>
           /\ ledger[call.id] # None
           /\ ret.asked = <<ledger[call.id][1].ids>>

\* two rows of one shop, the newer holding two identifiers: two calls, the
\* first carrying both identifiers
C11_Witness ==
    /\ call.op = "getAll"
    /\ Len(ret.value) = 2
    /\ Len(ret.asked) = 2
    /\ ret.asked[1] = <<P2, P1>>

\* C12: in every reachable state the ids of the rows are pairwise distinct, and
\* every row's id, shop and createdAt are those it was created with: update
\* replaces title and productIds only.
C12_IdentityKept ==
    /\ \A r, q \in store : r.id = q.id => r = q
    /\ \A r \in store :
           /\ r.id \in 1 .. nextId - 1
           /\ ledger[r.id] # None
           /\ r.shop = ledger[r.id][1].shop
           /\ r.createdAt = ledger[r.id][1].createdAt
           /\ r.title = ledger[r.id][1].title
           /\ r.productIds = JSONstringify(ledger[r.id][1].ids)
    /\ \A i \in IdArgs : ledger[i] # None => \E r \in store : r.id = i

\* an update by the owner has replaced title and productIds of the first row
\* while a second row exists
C12_Witness ==
    /\ call.op = "update"
    /\ ret.value # None
    /\ ret.value[1].title = "B"
    /\ \E r \in pre : r.id = call.id /\ r.title = "A"
                      /\ r.productIds # ret.value[1].productIds
                      /\ r.createdAt = ret.value[1].createdAt
    /\ Cardinality(store) = 2

----------------------------------------------------------------------------
(* The form route: action of the create/edit page *)

\* redirect(path) or redirect(`${path}${id}`); id 0 when the path has none
Redirect(path, id) ==
    [kind |-> "redirect", status |-> 302, path |-> path, id |-> id, errors |-> NoErrors]

\* json({ errors }, { status: 422 })
Json422(errors) ==
    [kind |-> "json", status |-> 422, path |-> "", id |-> 0, errors |-> errors]

NoService == Call("none", 0, "", None, None, <<>>)

\* what the action gives the framework (out) and the service call it made
Handled(out, svc, svcOut) == [out |-> out, svc |-> svc, svcOut |-> svcOut]

Responded(resp, o) ==
    Outcome("returned", "", Some(resp), o.rows, o.next, o.dbCalls, <<>>)

\* create or update with the submitted data, then redirect to the group
saveGroup(rows, next, shop, paramsId, titleField, idsField, now) ==
    LET title == IF titleField = None THEN Some("") ELSE titleField
        ids == Some(idsField)
        svc == Call(IF paramsId = 0 THEN "create" ELSE "update", paramsId, shop,
                    title, ids, <<>>)
        group == IF paramsId = 0
                 THEN createUpsellGroup(rows, next, shop, title, ids, now)
                 ELSE updateUpsellGroup(rows, next, paramsId, shop, title, ids)
    IN  IF group.status = "threw" THEN Handled(group, svc, group)
        ELSE IF group.value = None
        THEN Handled(Outcome("threw", "TypeError", None, group.rows, group.next,
                             group.dbCalls, <<>>), svc, group)
        ELSE Handled(Responded(Redirect("/app/upsell/", group.value[1].id), group),
                     svc, group)

formActionUnvalidated(rows, next, shop, paramsId, titleField, idsField, now) ==
    saveGroup(rows, next, shop, paramsId, titleField, idsField, now)

\* the action on a submission that is no delete.  paramsId is 0 for the route
\* parameter "new" and Number(params.id) otherwise; titleField is None when the
\* form has no field title; idsField holds the fields productIds[]
formAction(rows, next, shop, paramsId, titleField, idsField, now) ==
    LET title == IF titleField = None THEN Some("") ELSE titleField
        ids == Some(idsField)
        errors == validateUpsellGroup(title, ids)
    IN  IF errors # None
        THEN Handled(Outcome("returned", "", Some(Json422(errors[1])), rows, next, 0, <<>>),
                     NoService, Outcome("returned", "", None, rows, next, 0, <<>>))
        ELSE saveGroup(rows, next, shop, paramsId, titleField, idsField, now)

\* the action on a submission whose field action is "delete"
formDelete(rows, next, shop, paramsId) ==
    LET done == deleteUpsellGroup(rows, next, paramsId, shop)
    IN  Handled(Responded(Redirect("/app/upsells", 0), done),
                Call("delete", paramsId, shop, None, None, <<>>), done)

\* route parameters: "new" (0) and the ids a caller may name
ParamIds == {0} \cup IdArgs

\* the fields productIds[] of a submission: none, or those of a picked set
IdsFields == {<<>>} \cup SubmittedSeqs

FormSave ==
    \E pid \in ParamIds, shop \in Shops, title \in TitleArgs, ids \in IdsFields,
       now \in Times :
        LET f == formAction(store, nextId, shop, pid, title, ids, now) IN
        /\ f.out.next # nextId => nextId <= MaxRows
        /\ ApplyAs(Call("form", pid, shop, title, Some(ids), <<>>), f.svc, f.svcOut, f.out)

FormDelete ==
    \E pid \in IdArgs, shop \in Shops :
        LET f == formDelete(store, nextId, shop, pid) IN
        /\ f.out.next = nextId
        /\ ApplyAs(Call("formDelete", pid, shop, None, None, <<>>), f.svc, f.svcOut, f.out)

NextForm == FormSave \/ FormDelete \/ Settle

SpecForm == Init /\ [][NextForm]_vars

FormInvalid == call.title \in {None, Some("")} \/ call.productIds = Some(<<>>)

\* C13: the form action gates every write behind validation.  A submission
\* that is no delete and has an empty title or no field productIds[] gets the
\* field-error map with status 422, without a throw and without a store write;
\* createUpsellGroup and updateUpsellGroup are called only with data that
\* validateUpsellGroup accepts, so their asserts never fail through this action.
C13_FormGated ==
    call.op = "form" =>
        /\ FormInvalid =>
               /\ ret.status = "returned"
               /\ ret.value # None
               /\ ret.value[1].kind = "json"
               /\ ret.value[1].status = 422
               /\ ("title" \in DOMAIN ret.value[1].errors)
                      <=> (call.title \in {None, Some("")})
               /\ ("products" \in DOMAIN ret.value[1].errors)
                      <=> (call.productIds = Some(<<>>))
               /\ ret.dbCalls = 0
               /\ store = pre
        /\ ret.msg \notin {"Title is required", "Products are required"}
        /\ ret.dbCalls > 0 => ~FormInvalid

\* an edit of an existing row with the title field missing: only title is
\* reported and the row stays
C13_Witness ==
    /\ call.op = "form"
    /\ call.title = None
    /\ call.productIds = Some(<<P1>>)
    /\ \E r \in store : r.id = call.id /\ r.shop = call.shop
    /\ ret.value # None
    /\ DOMAIN ret.value[1].errors = {"title"}

\* C15: every submission that is no delete and carries valid data ends, in
\* every reachable store state, with a redirect to /app/upsell/<id>, <id> being
\* the id of a row stored for the session's shop; an absent record returned by
\* updateUpsellGroup is never dereferenced.
C15_RedirectsToStoredRow ==
    (call.op = "form" /\ ~FormInvalid) =>
        /\ ret.status = "returned"
        /\ ret.value # None
        /\ ret.value[1].kind = "redirect"
        /\ ret.value[1].path = "/app/upsell/"
        /\ \E r \in store : r.id = ret.value[1].id /\ r.shop = call.shop

----------------------------------------------------------------------------
(* getUpsellGroups step by step: Promise.all over one supplementUpsellGroup
   promise per row.  Each promise runs to its first await when it is made and
   then goes on whenever its catalog call or its response body settles, in any
   order relative to the others. *)

\* the rows a listing may find: ids 1 .. n, each of either shop, its productIds
\* text one the service wrote or a truncated one
ListingTexts == {JSONstringify(<<P1>>), JSONstringify(<<P2, P1>>), <<"[">>}

RECURSIVE ListingStores(_)
ListingStores(n) ==
    IF n = 0 THEN {{}}
    ELSE {rows \cup {insertRow(n, shop, <<"A">>, text, 10)} :
              rows \in ListingStores(n - 1), shop \in Shops, text \in ListingTexts}

InitListing ==
    /\ \E n \in 0 .. MaxRows : store \in ListingStores(n)
    /\ nextId = MaxRows + 1
    /\ pre = store
    /\ call = NoCall
    /\ ret = NoRet
    /\ ledger = NoLedger
    /\ req = NoRequest
    /\ fan = NoFan

\* what response.json() may give: it rejects, or a body without usable nodes,
\* or one node per requested identifier
BodyAnswers(text) ==
    {Answer(k, <<>>) : k \in {"jsonThrows", "noData", "noNodes"}}
        \cup {Answer("nodes", ns) : ns \in NodeSeqs(JSONparse(text).val)}

\* promise i settles with what supplementUpsellGroup makes of answer ans
Finished(i, ans) ==
    [fan EXCEPT !.pc[i] = "done", !.answers[i] = ans,
                !.out[i] = Some(supplementUpsellGroup(fan.groups[i], ans)),
                !.order = Append(@, i)]

\* JSON.parse(group.productIds) threw: the promise is settled by its catch
\* block before the map goes on to the next row
ParseThrows(groups) == {i \in 1 .. Len(groups) : ~JSONparse(groups[i].productIds).ok}

RECURSIVE InOrder(_, _)
InOrder(S, n) ==
    IF n = 0 THEN <<>>
    ELSE InOrder(S, n - 1) \o (IF n \in S THEN <<n>> ELSE <<>>)

\* findMany, then groups.map(supplementUpsellGroup): every promise is made, in
\* the order of the rows, and runs up to its await of adminClient.graphql
Begin ==
    \E shop \in Shops :
        LET groups == findMany(store, shop)
            n == Len(groups)
        IN  /\ fan.stage = "idle"
            /\ pre' = store
            /\ IF n = 0
               THEN /\ fan' = [fan EXCEPT !.stage = "settled", !.shop = shop]
                    /\ call' = Call("getAll", 0, shop, None, None, <<>>)
                    /\ ret' = Ret(getUpsellGroups(store, nextId, shop, <<>>))
               ELSE /\ fan' =
                         [stage |-> "running", shop |-> shop, groups |-> groups,
                          pc |-> [i \in 1 .. n |->
                                      IF i \in ParseThrows(groups) THEN "done"
                                      ELSE "graphql"],
                          answers |-> [i \in 1 .. n |-> NoAnswer],
                          out |-> [i \in 1 .. n |->
                                       IF i \in ParseThrows(groups)
                                       THEN Some(supplementUpsellGroup(groups[i], NoAnswer))
                                       ELSE None],
                          order |-> InOrder(ParseThrows(groups), n)]
                    /\ UNCHANGED <<call, ret>>
            /\ UNCHANGED <<store, nextId, ledger, req>>

\* await adminClient.graphql(...) of promise i settles: it rejects, or it gives
\* the response and response.json() is called
GraphqlSettles ==
    \E i \in 1 .. Len(fan.pc) :
        /\ fan.stage = "running"
        /\ fan.pc[i] = "graphql"
        /\ \/ fan' = Finished(i, Answer("throws", <<>>))
           \/ fan' = [fan EXCEPT !.pc[i] = "json"]
        /\ UNCHANGED <<store, nextId, pre, call, ret, ledger, req>>

\* await response.json() of promise i settles
JsonSettles ==
    \E i \in 1 .. Len(fan.pc) :
        /\ fan.stage = "running"
        /\ fan.pc[i] = "json"
        /\ \E ans \in BodyAnswers(fan.groups[i].productIds) : fan' = Finished(i, ans)
        /\ UNCHANGED <<store, nextId, pre, call, ret, ledger, req>>

Rejecting(out) == {i \in 1 .. Len(out) : out[i] # None /\ out[i][1].status = "threw"}

allValuesInCompletionOrder(out, order) ==
    [i \in 1 .. Len(out) |-> out[order[i]][1].value[1]]

\* what Promise.all fulfils with: the promises' values in the order of the
\* promises, whatever the order they settled in
allValues(out, order) ==
    [i \in 1 .. Len(out) |-> out[i][1].value[1]]

\* Promise.all settles: it rejects once a promise has rejected, and fulfils
\* once every promise has fulfilled
AllSettles ==
    /\ fan.stage = "running"
    /\ \/ Rejecting(fan.out) # {}
       \/ \A i \in 1 .. Len(fan.pc) : fan.pc[i] = "done"
    /\ fan' = [fan EXCEPT !.stage = "settled"]
    /\ call' = Call("getAll", 0, fan.shop, None, None, fan.answers)
    /\ ret' = IF Rejecting(fan.out) # {}
              THEN Ret(Outcome("threw", "", <<>>, store, nextId, 1, <<>>))
              ELSE Ret(Outcome("returned", "", allValues(fan.out, fan.order),
                               store, nextId, 1, <<>>))
    /\ UNCHANGED <<store, nextId, pre, ledger, req>>

NextListing == Begin \/ GraphqlSettles \/ JsonSettles \/ AllSettles

SpecListing == InitListing /\ [][NextListing]_vars

\* the rows of the shop the listing was made for, and the place of one of them
\* in descending order of id
Listed == {r \in store : r.shop = fan.shop}

Place(r) == 1 + Cardinality({q \in Listed : q.id > r.id})

\* the enrichment of row r failed under answer a; otherwise a's products
FailedFor(r, a) == ~JSONparse(r.productIds).ok \/ Raises(a)

ResolvedProducts(a) == IF a.kind = "noNodes" THEN <<>> ELSE formatProducts(a.nodes)

ExpectedFor(r, a) ==
    Enriched(r, IF FailedFor(r, a) THEN <<>> ELSE ResolvedProducts(a))

\* C14: in getUpsellGroups the enrichments of the rows run concurrently and
\* independently.  In whatever order the catalog calls and their bodies settle,
\* and whichever of them fail, every promise that has settled holds its own
\* row with products [] when its enrichment failed and the products resolved
\* for it otherwise, and the listing, once settled, is fulfilled (never
\* rejected) with every row of the shop exactly once, in descending order of
\* id, each with those products.
C14_IndependentEnrichment ==
    /\ fan.stage # "idle" =>
           /\ Len(fan.groups) = Cardinality(Listed)
           /\ \A r \in Listed :
                  /\ fan.groups[Place(r)] = r
                  /\ fan.pc[Place(r)] = "done" =>
                         fan.out[Place(r)] =
                             Some([status |-> "returned",
                                   value |-> Some(ExpectedFor(r, fan.answers[Place(r)])),
                                   asked |-> fan.out[Place(r)][1].asked])
    /\ fan.stage = "settled" =>
           /\ ret.status = "returned"
           /\ Len(ret.value) = Cardinality(Listed)
           /\ \A r \in Listed :
                  ret.value[Place(r)] = ExpectedFor(r, call.answers[Place(r)])

\* two rows of one shop; the call for the second row settled first and gave a
\* product, the call for the first row was rejected afterwards
C14_Witness ==
    /\ fan.stage = "settled"
    /\ fan.order = <<2, 1>>
    /\ call.answers[1].kind = "throws"
    /\ call.answers[2].kind = "nodes"
    /\ Len(ret.value) = 2
    /\ ret.value[1].id > ret.value[2].id
    /\ ret.value[1].products = <<>>
    /\ ret.value[2].products # <<>>

----------------------------------------------------------------------------
(* validateUpsellGroup on its own: every candidate, validated once *)

\* identifiers: the empty string, a plain character, a character that
\* JSON.stringify escapes, and an escape character before a separator
GidChoices == {<<>>, <<"a">>, <<DQ>>, <<BS, ",">>}

RECURSIVE SeqsUpTo(_, _)
SeqsUpTo(S, n) ==
    IF n = 0 THEN {<<>>}
    ELSE SeqsUpTo(S, n - 1)
             \cup {Append(q, x) : q \in {p \in SeqsUpTo(S, n - 1) : Len(p) = n - 1}, x \in S}

GidSeqs == SeqsUpTo(GidChoices, MaxIds)

InitValidate ==
    /\ store = {}
    /\ nextId = 1
    /\ pre = {}
    /\ \E title \in TitleArgs, ids \in {None} \cup {Some(q) : q \in GidSeqs} :
           call = Call("candidate", 0, "", title, ids, <<>>)
    /\ ret = NoRet
    /\ ledger = NoLedger
    /\ req = NoRequest
    /\ fan = NoFan

Validate ==
    /\ call.op = "candidate"
    /\ call' = [call EXCEPT !.op = "validate"]
    /\ ret' = [NoRet EXCEPT !.status = "returned",
                            !.value = validateUpsellGroup(call.title, call.productIds)]
    /\ UNCHANGED <<store, nextId, pre, ledger, req, fan>>

NextValidate == Validate

SpecValidate == InitValidate /\ [][NextValidate]_vars

\* C1: validateUpsellGroup returns an error object holding the key title
\* exactly when the title is empty or absent and the key products exactly when
\* productIds is empty or absent, and returns undefined exactly when the title
\* is non-empty and productIds has at least one element.
C1_ValidateErrors ==
    call.op = "validate" =>
        LET titleMissing == call.title = None \/ call.title = Some("")
            idsMissing == call.productIds = None \/ call.productIds = Some(<<>>)
            keys == IF ret.value = None THEN {} ELSE DOMAIN ret.value[1]
        IN  /\ ret.status = "returned"
            /\ (ret.value = None) <=> (~titleMissing /\ ~idsMissing)
            /\ ("title" \in keys) <=> titleMissing
            /\ ("products" \in keys) <=> idsMissing
            /\ keys \subseteq {"title", "products"}

\* an absent productIds with a good title: only the key products is reported
C1_Witness ==
    /\ call.op = "validate"
    /\ call.title = Some("A")
    /\ call.productIds = None
    /\ ret.value # None
    /\ DOMAIN ret.value[1] = {"products"}

----------------------------------------------------------------------------
(* supplementUpsellGroup on its own: one stored row, whatever its productIds
   text holds, against whatever the catalog does *)

RECURSIVE Prefixes(_)
Prefixes(t) == IF t = <<>> THEN {<<>>} ELSE {t} \cup Prefixes(SubSeq(t, 1, Len(t) - 1))

\* the texts JSON.stringify writes, and every truncation of them
StoredTexts == UNION {Prefixes(JSONstringify(q)) : q \in GidSeqs}

NodeChoices(pid) == {NullNode, OtherNode, ProductNode(pid, None), ProductNode(pid, Image(pid))}

RECURSIVE AlignedNodes(_)
AlignedNodes(ids) ==
    IF ids = <<>> THEN {<<>>}
    ELSE {<<n>> \o rest : n \in NodeChoices(Head(ids)), rest \in AlignedNodes(Tail(ids))}

Failures ==
    {Answer(k, <<>>) : k \in {"throws", "jsonThrows", "noData", "noNodes", "notArray"}}

\* every failure, every answer of one node per requested identifier, and
\* answers that are not aligned with the request
EnrichAnswers(text) ==
    Failures
        \cup {Answer("nodes", ns) : ns \in AlignedNodes(JSONparse(text).val)}
        \cup {Answer("nodes", ns) :
                  ns \in SeqsUpTo({NullNode, ProductNode(P1, None)}, MaxNodes)}

InitEnrich ==
    /\ \E text \in StoredTexts :
           store \in {{insertRow(1, "s1", "A", text, 10)}, {insertRow(2, "s2", "B", text, 20)}}
    /\ nextId = 3
    /\ pre = store
    /\ call = NoCall
    /\ ret = NoRet
    /\ ledger = NoLedger
    /\ req = NoRequest
    /\ fan = NoFan

Supplement ==
    \E group \in store :
        \E ans \in EnrichAnswers(group.productIds) :
            LET e == supplementUpsellGroup(group, ans) IN
            Apply(Call("supplement", group.id, group.shop, None, None, <<ans>>),
                  Outcome(e.status, "", e.value, store, nextId, 0, e.asked))

GetStored ==
    \E group \in store :
        \E ans \in EnrichAnswers(group.productIds) :
            Apply(Call("getOne", group.id, group.shop, None, None, <<ans>>),
                  getUpsellGroup(store, nextId, group.id, group.shop, ans))

NextEnrich == Supplement \/ GetStored

SpecEnrich == InitEnrich /\ [][NextEnrich]_vars

\* the row a supplement or getOne call of the enrichment check was made on
TheGroup == CHOOSE g \in pre : g.id = call.id /\ g.shop = call.shop

Decodes(text) == \E q \in GidSeqs : text = JSONstringify(q)

\* C2: enrichment never fails outward.  When decoding productIds fails, the
\* catalog call throws or the response is malformed, supplementUpsellGroup, and
\* getUpsellGroup on an existing (id, shop), return normally with the row's own
\* id, title, shop and createdAt and with products empty.
C2_EnrichNeverFails ==
    call.op \in {"supplement", "getOne"} =>
        /\ ret.status = "returned"
        /\ ret.value # None
        /\ ret.value[1].id = TheGroup.id
        /\ ret.value[1].title = TheGroup.title
        /\ ret.value[1].shop = TheGroup.shop
        /\ ret.value[1].createdAt = TheGroup.createdAt
        /\ (~Decodes(TheGroup.productIds) \/ call.answers[1].kind # "nodes")
               => ret.value[1].products = <<>>
        /\ store = pre

\* getOne on a row whose text is truncated, the catalog being healthy
C2_Witness ==
    /\ call.op = "getOne"
    /\ TheGroup.productIds = <<"[", DQ, "a">>
    /\ call.answers[1].kind = "nodes"
    /\ ret.status = "returned"
    /\ ret.value[1].products = <<>>

\* C3: when the catalog answers one node per requested identifier, null where
\* the product is gone, the products returned are exactly the non-null nodes in
\* the catalog's order: never more than requested, none added.
C3_DropsMissing ==
    (/\ call.op = "supplement"
     /\ Decodes(TheGroup.productIds)
     /\ call.answers[1].kind = "nodes"
     /\ Len(call.answers[1].nodes) = Len(ret.asked[1])) =>
        LET nodes == call.answers[1].nodes
            products == ret.value[1].products
            kept == {i \in 1 .. Len(nodes) : ~nodes[i].isNull}
        IN  /\ Len(products) <= Len(ret.asked[1])
            /\ Len(products) = Cardinality(kept)
            /\ \E f \in [1 .. Len(products) -> kept] :
                   /\ \A j, k \in 1 .. Len(products) : j < k => f[j] < f[k]
                   /\ \A k \in 1 .. Len(products) :
                          /\ products[k].id = nodes[f[k]].id
                          /\ products[k].title = nodes[f[k]].title
                          /\ products[k].handle = nodes[f[k]].handle
                          /\ products[k].imageUrl =
                                 (IF nodes[f[k]].featuredImage = None THEN None
                                  ELSE nodes[f[k]].featuredImage[1].url)

\* two identifiers asked, the first gone: one product, the second
C3_Witness ==
    /\ call.op = "supplement"
    /\ ret.asked = <<(<<P1, <<DQ>>>>)>>
    /\ call.answers[1] = Answer("nodes", <<NullNode, ProductNode(<<DQ>>, Image(<<DQ>>))>>)
    /\ Len(ret.value[1].products) = 1
    /\ ret.value[1].products[1].id = Some(<<DQ>>)

----------------------------------------------------------------------------
(* The public retrieval endpoint: loader of app/routes/api/upsell.ts *)

\* the member session of the value authenticate.public.checkout resolves to:
\* missing, a session itself, an object without a session, an object holding one
SessionMembers ==
    {[present |-> FALSE, isSession |-> FALSE, inner |-> None],
     [present |-> TRUE, isSession |-> TRUE, inner |-> None],
     [present |-> TRUE, isSession |-> FALSE, inner |-> None]}
        \cup {[present |-> TRUE, isSession |-> FALSE, inner |-> Some(sh)] : sh \in Shops}

\* its member cors: missing, the wrapping function, an object holding it
CorsMembers ==
    {[present |-> FALSE, callable |-> FALSE, inner |-> FALSE],
     [present |-> TRUE, callable |-> TRUE, inner |-> FALSE],
     [present |-> TRUE, callable |-> FALSE, inner |-> TRUE]}

CheckoutResults ==
    {[sessionToken |-> t, session |-> sm, cors |-> cm] :
         t \in BOOLEAN, sm \in SessionMembers, cm \in CorsMembers}

\* db.product.findFirst({ where: { id: 1 } }): throws, finds nothing, finds a row
QueryOutcomes == {"throws", "null", "gift", "sample"}

Finish(resp) == [req EXCEPT !.pc = "done", !.resp = resp]

Service == <<store, nextId, pre, call, ret, ledger, fan>>

\* line 9: await authenticate.public.checkout(request) rejects or resolves
Authenticate ==
    /\ req.pc = "idle"
    /\ \/ req' = Finish(Exception("rejected by authenticate"))
       \/ \E result \in CheckoutResults :
              req' = [req EXCEPT !.pc = "line10", !.result = result]
    /\ UNCHANGED Service

\* line 10: const { session } = checkoutResult.session
DestructureSession ==
    /\ req.pc = "line10"
    /\ req' = IF ~req.result.session.present THEN Finish(Exception("TypeError"))
              ELSE [req EXCEPT !.pc = "line11", !.session = req.result.session.inner]
    /\ UNCHANGED Service

\* line 11: const { cors } = checkoutResult.cors
DestructureCors ==
    /\ req.pc = "line11"
    /\ req' = IF ~req.result.cors.present THEN Finish(Exception("TypeError"))
              ELSE [req EXCEPT !.pc = "line13", !.cors = req.result.cors.inner]
    /\ UNCHANGED Service

\* lines 13-16: if (!session) return cors(data({ error }, { status: 401 }))
CheckSession ==
    /\ req.pc = "line13"
    /\ req' = IF req.session # None THEN [req EXCEPT !.pc = "line20"]
              ELSE IF req.cors THEN Finish(Wrapped(401, "error: Unauthorized"))
              ELSE Finish(Exception("TypeError"))
    /\ UNCHANGED Service

\* lines 19-25: try { await db.product.findFirst(...) }
Query ==
    /\ req.pc = "line20"
    /\ \E q \in QueryOutcomes :
           req' = [req EXCEPT !.pc = IF q = "throws" THEN "line31" ELSE "line28",
                              !.queries = @ + 1,
                              !.found = Some(q)]
    /\ UNCHANGED Service

\* line 28: return cors(data(upsellProducts)), still inside the try block
RespondFound ==
    /\ req.pc = "line28"
    /\ req' = IF req.cors THEN Finish(Wrapped(200, req.found[1]))
              ELSE [req EXCEPT !.pc = "line31"]
    /\ UNCHANGED Service

\* lines 30-33: catch (error) { return cors(data({ error }, { status: 500 })) }
RespondError ==
    /\ req.pc = "line31"
    /\ req' = IF req.cors THEN Finish(Wrapped(500, "error: Internal Server Error"))
              ELSE Finish(Exception("TypeError"))
    /\ UNCHANGED Service

NextLoader ==
    \/ Authenticate
    \/ DestructureSession
    \/ DestructureCors
    \/ CheckSession
    \/ Query
    \/ RespondFound
    \/ RespondError

SpecLoader == Init /\ [][NextLoader]_vars

Rejected == req.resp = Exception("rejected by authenticate")

\* verification succeeded: checkout resolved to a verified token or a session
Verified ==
    /\ req.pc # "idle"
    /\ ~Rejected
    /\ \/ req.result.sessionToken
       \/ req.result.session.isSession
       \/ req.result.session.inner # None

\* C8: every request whose token verification fails or yields no session ends
\* with status 401 and body {error: "Unauthorized"} in the CORS envelope, never
\* with an unhandled exception, and never reaches the store query.
C8_Unauthorized401 ==
    (req.pc = "done" /\ ~Verified) =>
        /\ req.resp = Wrapped(401, "error: Unauthorized")
        /\ req.queries = 0

\* C9: every request whose token verification succeeds makes exactly one store
\* query and ends in exactly one outcome: 500 {error: "Internal Server Error"}
\* when the query throws, otherwise 200 with the record found, both in the CORS
\* envelope.
C9_OneQueryOneOutcome ==
    (req.pc = "done" /\ Verified) =>
        /\ req.queries = 1
        /\ req.found = Some("throws") =>
               req.resp = Wrapped(500, "error: Internal Server Error")
        /\ req.found # Some("throws") => req.resp = Wrapped(200, req.found[1])

====
